---- MODULE Spec2Model ----
(***************************************************************************)
(* The fetch / gate / parse pipeline of biblebot's library scrapers        *)
(* (biblebot/api/lib.py and biblebot/api/library.py).                      *)
(*                                                                         *)
(* A Response is a record of the things the parsers read from it: status,  *)
(* url, headers, cookies, raw body and the results of the selector queries *)
(* the parsers run on response.soup.  Text is a sequence of tokens, where  *)
(* the tokens " " and "\n" are the whitespace that str.strip and           *)
(* str.replace("\n", "") act on.  Python lists are sequences; the helpers  *)
(* below use Python's 0-based and negative indices.  A call either returns *)
(* a value (Ok) or raises (Raise).  The Korean message strings of the      *)
(* source are written as ASCII stand-ins, named after the line they are on.*)
(***************************************************************************)
EXTENDS Integers, Sequences, FiniteSets, TLC

VARIABLES pc, parser, response, argCookies, result, wrappedCalls, blockedBy, subject

vars == <<pc, parser, response, argCookies, result, wrappedCalls, blockedBy, subject>>

(* ------------------------------ bounds -------------------------------- *)

\* Largest number of <th> cells of a header row and of <td> cells of a row.
MaxCols == 9
\* Largest number of <tr> rows of a table body.
MaxRows == 2
\* Largest number of tokens of a location header value.
MaxLoc == 4

(* ------------------------- Python values ------------------------------ *)

Ok(v) == [ok |-> TRUE, val |-> v]
Raise(e) == [ok |-> FALSE, exc |-> e]

\* Python's built-in exceptions, and biblebot.exceptions.ParsingError(msg, response).
IndexError == [type |-> "IndexError"]
KeyError == [type |-> "KeyError"]
AttributeError == [type |-> "AttributeError"]
TypeError == [type |-> "TypeError"]
ParsingError(msg, r) == [type |-> "ParsingError", msg |-> msg, response |-> r]

\* What a call that raised looks like to the caller of parse.
Raised(e) == [kind |-> "Raise", exc |-> e]
\* A function that falls off its end returns None.
PyNone == [kind |-> "None"]
\* A bare list return value.
PyList(items) == [kind |-> "List", items |-> items]

ResourceData(data, link) == [kind |-> "ResourceData", data |-> data, link |-> link]
ErrorData(error, link) == [kind |-> "ErrorData", error |-> error, link |-> link]

Whitespace == {" ", "\n"}

RECURSIVE LStrip(_)
LStrip(t) ==
    IF t # <<>> /\ Head(t) \in Whitespace THEN LStrip(Tail(t)) ELSE t

RECURSIVE RStrip(_)
RStrip(t) ==
    IF t # <<>> /\ t[Len(t)] \in Whitespace
    THEN RStrip(SubSeq(t, 1, Len(t) - 1))
    ELSE t

\* str.strip()
Strip(t) == RStrip(LStrip(t))

IsNotNewline(c) == c # "\n"

\* str.replace("\n", "")
RemoveNewlines(t) == SelectSeq(t, IsNotNewline)

\* del lst[i], i >= 0
PyDel(lst, i) ==
    IF i < Len(lst)
    THEN Ok(SubSeq(lst, 1, i) \o SubSeq(lst, i + 2, Len(lst)))
    ELSE Raise(IndexError)

\* lst[i] = v, i >= 0
PySet(lst, i, v) ==
    IF i < Len(lst) THEN Ok([lst EXCEPT ![i + 1] = v]) ELSE Raise(IndexError)

\* lst[-1] = v
PySetLast(lst, v) ==
    IF Len(lst) > 0 THEN Ok([lst EXCEPT ![Len(lst)] = v]) ELSE Raise(IndexError)

(* ---------------------------- constants ------------------------------- *)

\* The status the session-expired check looks for.
RedirectStatus == 302
\* The header and row index both list parsers delete.
DeletedIndex == 4

\* lib.py:35 and library.py:36, the session-expired title.
SessionExpiredTitle == <<"session expired, redirected to the login page">>
\* lib.py:86
LoginFailedTitle == <<"login failed, enter correct information">>
\* lib.py:133 and library.py:131
NoTableHeadMessage == "table head does not exist"
\* lib.py:149 and library.py:148
NoTableBodyMessage == "table body does not exist"
\* lib.py:137
BookUrlLabel == <<"book URL">>
\* library.py:137
BookImageLabel == <<"book image">>
\* library.py:136
IsbnLabel == <<"ISBN">>
\* lib.py:198
ImageNotLoadedTitle == <<"could not load image">>

(* ------------------------- precondition gate -------------------------- *)

\* The check with the wrong redirect status: it looks for 301.
Mut_is_blocking_other_redirect(r) ==
    IF r.status = 301
    THEN ErrorData([title |-> SessionExpiredTitle], r.url)
    ELSE PyNone

\* lib.py: _SessionExpiredChecker.is_blocking
Lib_SessionExpiredChecker_is_blocking(r) ==
    IF r.status = RedirectStatus
    THEN ErrorData([title |-> SessionExpiredTitle], r.url)
    ELSE PyNone

\* The check that takes every 3xx status for an expired session.
Mut_is_blocking_any_redirect(r) ==
    IF r.status >= 300 /\ r.status < 400
    THEN ErrorData([title |-> SessionExpiredTitle], r.url)
    ELSE PyNone

\* library.py: _SessionExpiredChecker.is_blocking
Library_SessionExpiredChecker_is_blocking(r) ==
    IF r.status = RedirectStatus
    THEN ErrorData([title |-> SessionExpiredTitle], r.url)
    ELSE PyNone

\* The checks each module registers on IParserPrecondition, in registration order.
Lib_Preconditions == <<"lib._SessionExpiredChecker">>
Library_Preconditions == <<"library._SessionExpiredChecker">>

\* check.is_blocking(response) of a registered check.
IsBlocking(check, r) ==
    IF check = "lib._SessionExpiredChecker"
    THEN Lib_SessionExpiredChecker_is_blocking(r)
    ELSE Library_SessionExpiredChecker_is_blocking(r)

\* The index of the first check, from i on, that blocks r; 0 when none does.
RECURSIVE FirstBlocking(_, _, _)
FirstBlocking(checks, r, i) ==
    IF i > Len(checks) THEN 0
    ELSE IF IsBlocking(checks[i], r).kind # "None" THEN i
    ELSE FirstBlocking(checks, r, i + 1)

\* ParserPrecondition.__call__: the wrapper put around a parse method.  It
\* returns the first blocking check's ErrorData, and otherwise calls the
\* wrapped parse (whose outcome is `wrapped`) and returns what it returns.
ParserPrecondition(checks, r, wrapped) ==
    LET i == FirstBlocking(checks, r, 1) IN
    IF i > 0
    THEN [out |-> IsBlocking(checks[i], r), calls |-> 0, blockedBy |-> i]
    ELSE [out |-> wrapped, calls |-> 1, blockedBy |-> 0]

\* A parse that is not wrapped: its body runs once.
Ungated(out) == [out |-> out, calls |-> 1, blockedBy |-> 0]

(* ------------------------ lib.py: Library ----------------------------- *)

StripAll(texts) == [i \in 1..Len(texts) |-> Strip(texts[i])]

\* parse_subject deleting index 3 instead of index 4.
Mut_parse_subject_deletes_3(r) ==
    IF r.soup.theadRows = <<>>
    THEN Raise(ParsingError(NoTableHeadMessage, r.url))
    ELSE LET head == StripAll(r.soup.theadRows[1])
             deleted == PyDel(head, DeletedIndex - 1)
         IN  IF ~deleted.ok THEN deleted
             ELSE PySetLast(deleted.val, BookUrlLabel)

\* lib.py: Library.parse_subject
Lib_Library_parse_subject(r) ==
    IF r.soup.theadRows = <<>>
    THEN Raise(ParsingError(NoTableHeadMessage, r.url))
    ELSE LET head == StripAll(r.soup.theadRows[1])
             deleted == PyDel(head, DeletedIndex)
         IN  IF ~deleted.ok THEN deleted
             ELSE PySetLast(deleted.val, BookUrlLabel)

\* lib.py: the body of the loop of Library.parse_main_table, for one <tr>
Lib_Library_row(tr) ==
    IF tr.right5 = <<>> THEN Raise(AttributeError)
    ELSE IF tr.titleStrong = <<>> THEN Raise(AttributeError)
    ELSE IF Len(tr.dateStrongs) < 1 THEN Raise(IndexError)
    ELSE IF Len(tr.dateStrongs) < 2 THEN Raise(IndexError)
    ELSE IF tr.stateEls = <<>> THEN Raise(AttributeError)
    ELSE IF Len(tr.tds) < 7 THEN Raise(IndexError)
    ELSE IF Len(tr.tds) < 8 THEN Raise(IndexError)
    ELSE IF tr.leftLinks = <<>> THEN Raise(IndexError)
    ELSE IF "href" \notin DOMAIN tr.leftLinks[1] THEN Raise(KeyError)
    ELSE Ok(<< RemoveNewlines(tr.right5[1]),
               tr.titleStrong[1],
               tr.dateStrongs[1],
               tr.dateStrongs[2],
               tr.stateEls[1],
               RemoveNewlines(tr.tds[7]),
               RemoveNewlines(tr.tds[8]),
               tr.leftLinks[1].href >>)

RECURSIVE Lib_Library_rows(_, _)
Lib_Library_rows(trs, body) ==
    IF trs = <<>> THEN Ok(body)
    ELSE LET info == Lib_Library_row(Head(trs)) IN
         IF ~info.ok THEN info
         ELSE Lib_Library_rows(Tail(trs), Append(body, info.val))

\* lib.py: Library.parse_main_table
Lib_Library_parse_main_table(r) ==
    IF r.soup.tbodyRows = <<>>
    THEN Raise(ParsingError(NoTableBodyMessage, r.url))
    ELSE Lib_Library_rows(r.soup.tbodyRows, <<>>)

\* lib.py: the function Library.parse before @_ParserPrecondition wraps it
Lib_Library_parse_wrapped(r) ==
    LET head == Lib_Library_parse_subject(r) IN
    IF ~head.ok THEN Raised(head.exc)
    ELSE LET body == Lib_Library_parse_main_table(r) IN
         IF ~body.ok THEN Raised(body.exc)
         ELSE ResourceData([head |-> head.val, body |-> body.val], r.url)

\* lib.py: Library.parse
Lib_Library_parse(r) ==
    ParserPrecondition(Lib_Preconditions, r, Lib_Library_parse_wrapped(r))

(* --------------------- library.py: CheckoutList ----------------------- *)

\* library.py: CheckoutList.parse_subject
Library_CheckoutList_parse_subject(r) ==
    IF r.soup.theadRows = <<>>
    THEN Raise(ParsingError(NoTableHeadMessage, r.url))
    ELSE LET head == StripAll(r.soup.theadRows[1])
             deleted == PyDel(head, DeletedIndex)
         IN  IF ~deleted.ok THEN deleted
             ELSE LET first == PySet(deleted.val, 0, IsbnLabel) IN
                  IF ~first.ok THEN first
                  ELSE PySetLast(first.val, BookImageLabel)

\* library.py: the body of the loop of CheckoutList.parse_main_table, for one <tr>
Library_CheckoutList_row(tr) ==
    LET info == StripAll(tr.tds) IN
    IF tr.titleStrong = <<>> THEN Raise(AttributeError)
    ELSE LET titled == PySet(info, 1, Strip(tr.titleStrong[1])) IN
    IF ~titled.ok THEN titled
    ELSE IF tr.leftLinks = <<>> THEN Raise(IndexError)
    ELSE IF "href" \notin DOMAIN tr.leftLinks[1] THEN Raise(KeyError)
    ELSE LET linked == PySetLast(titled.val, tr.leftLinks[1].href) IN
    IF ~linked.ok THEN linked
    ELSE PyDel(linked.val, DeletedIndex)

RECURSIVE Library_CheckoutList_rows(_, _)
Library_CheckoutList_rows(trs, body) ==
    IF trs = <<>> THEN Ok(body)
    ELSE LET info == Library_CheckoutList_row(Head(trs)) IN
         IF ~info.ok THEN info
         ELSE Library_CheckoutList_rows(Tail(trs), Append(body, info.val))

\* library.py: CheckoutList.parse_main_table
Library_CheckoutList_parse_main_table(r) ==
    IF r.soup.tbodyRows = <<>>
    THEN Raise(ParsingError(NoTableBodyMessage, r.url))
    ELSE Library_CheckoutList_rows(r.soup.tbodyRows, <<>>)

\* library.py: the function CheckoutList.parse before @_ParserPrecondition wraps it
Library_CheckoutList_parse_wrapped(r) ==
    LET head == Library_CheckoutList_parse_subject(r) IN
    IF ~head.ok THEN Raised(head.exc)
    ELSE LET body == Library_CheckoutList_parse_main_table(r) IN
         IF ~body.ok THEN Raised(body.exc)
         ELSE ResourceData([head |-> head.val, body |-> body.val], r.url)

\* library.py: CheckoutList.parse
Library_CheckoutList_parse(r) ==
    ParserPrecondition(Library_Preconditions, r, Library_CheckoutList_parse_wrapped(r))

(* --------------------------- common helpers --------------------------- *)

MonthNumber(mon) ==
    CASE mon = "Jan" -> 1 [] mon = "Feb" -> 2 [] mon = "Mar" -> 3
      [] mon = "Apr" -> 4 [] mon = "May" -> 5 [] mon = "Jun" -> 6
      [] mon = "Jul" -> 7 [] mon = "Aug" -> 8 [] mon = "Sep" -> 9
      [] mon = "Oct" -> 10 [] mon = "Nov" -> 11 [] mon = "Dec" -> 12

\* Days from 1970-01-01 to the given day of the proleptic Gregorian calendar.
DaysFromCivil(year, month, day) ==
    LET y == IF month <= 2 THEN year - 1 ELSE year
        era == y \div 400
        yoe == y - era * 400
        mp == IF month > 2 THEN month - 3 ELSE month + 9
        doy == (153 * mp + 2) \div 5 + day - 1
        doe == yoe * 365 + yoe \div 4 - yoe \div 100 + doy
    IN  era * 146097 + doe - 719468

\* common.httpdate_to_unixtime: an HTTP date, "Tue, 15 Mar 2022 04:00:00 GMT"
\* as [wd, day, mon, year, hh, mm, ss], to seconds since the epoch.
httpdate_to_unixtime(d) ==
    DaysFromCivil(d.year, MonthNumber(d.mon), d.day) * 86400
        + d.hh * 3600 + d.mm * 60 + d.ss

Digits == {"0", "1", "2", "3", "4", "5", "6", "7", "8", "9"}

\* The longest run of digits t starts with.
RECURSIVE DigitRun(_)
DigitRun(t) ==
    IF t # <<>> /\ Head(t) \in Digits THEN <<Head(t)>> \o DigitRun(Tail(t)) ELSE <<>>

\* re.search(r"ErrorCode=(\d+)", loc): group 1 of the leftmost match, <<>> when
\* there is none.  The token "ErrorCode=" stands for those ten characters.
RECURSIVE re_search_ErrorCode(_)
re_search_ErrorCode(loc) ==
    IF loc = <<>> THEN <<>>
    ELSE IF Head(loc) = "ErrorCode=" /\ DigitRun(Tail(loc)) # <<>>
         THEN DigitRun(Tail(loc))
         ELSE re_search_ErrorCode(Tail(loc))

\* re.match(r"https?://", url): the pattern matches at the start of url.
re_match_http(url) ==
    /\ Len(url) >= 2
    /\ url[1] = "http"
    /\ \/ url[2] = "://"
       \/ Len(url) >= 3 /\ url[2] = "s" /\ url[3] = "://"

\* s[:5]
FirstFive(s) == SubSeq(s, 1, IF Len(s) < 5 THEN Len(s) ELSE 5)

(* -------------------------- lib.py: Login ----------------------------- *)

\* Login.parse taking the cookies of the response instead of its argument.
Mut_Lib_Login_parse_response_cookies(r, cookies) ==
    IF r.soup.infoBoxes = <<>> THEN Raised(AttributeError)
    ELSE IF Len(r.soup.infoBoxes[1]) < 2 THEN Raised(IndexError)
    ELSE LET li == r.soup.infoBoxes[1][2] IN
    IF "date" \notin DOMAIN r.headers THEN Raised(KeyError)
    ELSE LET iat == httpdate_to_unixtime(r.headers["date"]) IN
    IF li = <<"HOME">>
    THEN ErrorData([title |-> LoginFailedTitle], r.url)
    ELSE ResourceData([cookies |-> r.cookies, validate_content |-> li, iat |-> iat],
                      r.url)

\* lib.py: Login.parse
Lib_Login_parse(r, cookies) ==
    IF r.soup.infoBoxes = <<>> THEN Raised(AttributeError)
    ELSE IF Len(r.soup.infoBoxes[1]) < 2 THEN Raised(IndexError)
    ELSE LET li == r.soup.infoBoxes[1][2] IN
    IF "date" \notin DOMAIN r.headers THEN Raised(KeyError)
    ELSE LET iat == httpdate_to_unixtime(r.headers["date"]) IN
    IF li = <<"HOME">>
    THEN ErrorData([title |-> LoginFailedTitle], r.url)
    ELSE ResourceData([cookies |-> cookies, validate_content |-> li, iat |-> iat],
                      r.url)

(* ------------------------- lib.py: BookPhoto -------------------------- *)

\* lib.py: BookPhoto.parse
Lib_BookPhoto_parse(r) ==
    IF r.soup.titleImages = <<>> THEN Raised(TypeError)
    ELSE IF "src" \notin DOMAIN r.soup.titleImages[1] THEN Raised(KeyError)
    ELSE LET img_url == r.soup.titleImages[1].src IN
    IF re_match_http(img_url)
    THEN ResourceData([img_url |-> img_url], r.url)
    ELSE ErrorData([title |-> ImageNotLoadedTitle], r.url)

(* ------------------------ library.py: Login --------------------------- *)

\* Login.parse with the pattern ErrorCode=(\d): one digit of the code.
Mut_Library_Login_parse_one_digit(r) ==
    IF "location" \notin DOMAIN r.headers
    THEN IF r.soup.alerts = <<>> THEN Raised(AttributeError)
         ELSE ErrorData([title |-> Strip(r.soup.alerts[1])], r.url)
    ELSE LET m == re_search_ErrorCode(r.headers["location"]) IN
    IF m # <<>>
    THEN ErrorData([code |-> <<m[1]>>], r.url)
    ELSE IF "date" \notin DOMAIN r.headers THEN Raised(KeyError)
    ELSE ResourceData([cookies |-> r.cookies,
                       iat |-> httpdate_to_unixtime(r.headers["date"])],
                      r.url)

\* library.py: Login.parse
Library_Login_parse(r) ==
    IF "location" \notin DOMAIN r.headers
    THEN IF r.soup.alerts = <<>> THEN Raised(AttributeError)
         ELSE ErrorData([title |-> Strip(r.soup.alerts[1])], r.url)
    ELSE LET m == re_search_ErrorCode(r.headers["location"]) IN
    IF m # <<>>
    THEN ErrorData([code |-> m], r.url)
    ELSE IF "date" \notin DOMAIN r.headers THEN Raised(KeyError)
    ELSE ResourceData([cookies |-> r.cookies,
                       iat |-> httpdate_to_unixtime(r.headers["date"])],
                      r.url)

(* ----------------- library.py: BookDetail, BookPhoto ------------------ *)

\* library.py: BookDetail.parse
Library_BookDetail_parse(r) ==
    IF Len(r.soup.bookData) < 2 THEN Raised(IndexError)
    ELSE LET isbn == Strip(r.soup.bookData[2]) IN
    IF r.soup.titleImages = <<>> THEN Raised(TypeError)
    ELSE IF "src" \notin DOMAIN r.soup.titleImages[1] THEN Raised(KeyError)
    ELSE LET img_url == r.soup.titleImages[1].src IN
    IF ~re_match_http(img_url)
    THEN PyList(<<isbn, PyNone>>)
    ELSE PyList(<<isbn, img_url>>)

\* library.py: BookPhoto.parse
Library_BookPhoto_parse(r) ==
    IF "content-type" \notin DOMAIN r.headers THEN Raised(KeyError)
    ELSE IF FirstFive(r.headers["content-type"]) = <<"i", "m", "a", "g", "e">>
    THEN ResourceData([raw_image |-> r.raw], r.url)
    ELSE PyNone

(* ------------------- responses the Transport returns ------------------ *)

\* All sequences over S of length at most n.
SeqsUpTo(S, n) == UNION {[1..k -> S] : k \in 0..n}

NoHeaders == <<>>
\* The header mappings with, for each name, either no entry or one of its values.
WithHeader(hs, name, values) ==
    hs \cup {h @@ (name :> v) : h \in hs, v \in values}

Urls == {"https://lib.bible.ac.kr/MyLibrary", "https://lib.bible.ac.kr/Account/LogOn"}
CookieJars == {[SessionId |-> "s1"], [SessionId |-> "s2"]}
Bodies == {"bytes-a", "bytes-b"}

Dates ==
    { [wd |-> "Thu", day |-> 1, mon |-> "Jan", year |-> 1970, hh |-> 0, mm |-> 0, ss |-> 0],
      [wd |-> "Tue", day |-> 29, mon |-> "Feb", year |-> 2000, hh |-> 23, mm |-> 59, ss |-> 59],
      [wd |-> "Tue", day |-> 15, mon |-> "Mar", year |-> 2022, hh |-> 4, mm |-> 0, ss |-> 0] }

LocationTokens == {"ErrorCode=", "0", "7", "/Account/LogOn?"}
Locations == SeqsUpTo(LocationTokens, MaxLoc)

ContentTypes ==
    { <<"i", "m", "a", "g", "e", "/", "j", "p", "e", "g">>,
      <<"i", "m", "a", "g", "e", "/", "p", "n", "g">>,
      <<"i", "m", "a", "g", "e">>,
      <<"i", "m", "a", "g">>,
      <<"t", "e", "x", "t", "/", "h", "t", "m", "l">>,
      <<"a", "p", "p", "/", "i", "m", "a", "g", "e">> }

ImageSources ==
    { <<"http", "://", "image.aladin.co.kr/cover.jpg">>,
      <<"http", "s", "://", "image.aladin.co.kr/cover.jpg">>,
      <<"/Content/images/noimage.gif">>,
      <<"ftp", "://", "image.aladin.co.kr/cover.jpg">>,
      <<"http">> }
\* What select_one(".page-detail-title-image a img") can find: nothing, an
\* <img> without src, an <img src=...>.
TitleImages ==
    {<<>>, <<[alt |-> <<"cover">>]>>} \cup {<<[src |-> u]>> : u \in ImageSources}

ColNames == <<"c0", "c1", "c2", "c3", "c4", "c5", "c6", "c7", "c8", "c9", "c10", "c11">>

\* The text of the i-th cell of a row (i from 1), as the page pads it.
CellText(i) == IF i % 2 = 0 THEN <<"\n", ColNames[i], " ", "\n">> ELSE <<ColNames[i]>>

\* A header row of n <th> cells.
HeaderRow(n) == [i \in 1..n |-> CellText(i)]

BookLink == [href |-> <<"/Search/Detail/12345">>]

\* A body row of m <td> cells with every nested element the parsers read.
GoodRow(m) ==
    [ tds |-> [i \in 1..m |-> CellText(i)],
      right5 |-> << <<"\n", "1", "\n">> >>,
      titleStrong |-> << <<" ", "title", " ">> >>,
      dateStrongs |-> << <<"2023-01-01">>, <<"2023-01-15">> >>,
      stateEls |-> << <<"on loan">> >>,
      leftLinks |-> <<BookLink>> ]

\* Rows that lack one of the nested elements.
BadRows ==
    { [GoodRow(MaxCols) EXCEPT !.titleStrong = <<>>],
      [GoodRow(MaxCols) EXCEPT !.leftLinks = << [class |-> <<"left">>] >>] }

Rows == {GoodRow(m) : m \in 0..MaxCols} \cup BadRows

BlankSoup ==
    [ infoBoxes |-> <<>>, alerts |-> <<>>, theadRows |-> <<>>, tbodyRows |-> <<>>,
      bookData |-> <<>>, titleImages |-> <<>> ]

Response(status, url, headers, cookies, raw, soup) ==
    [ status |-> status, url |-> url, headers |-> headers, cookies |-> cookies,
      raw |-> raw, soup |-> soup ]

\* What the portal can answer to the fetch of the checkout list.
ListResponses ==
    { Response(st, u, NoHeaders, <<>>, "html",
               [BlankSoup EXCEPT !.theadRows = th, !.tbodyRows = trs]) :
        st \in {200, 301, 302}, u \in Urls,
        th \in {<<>>} \cup {<<HeaderRow(n)>> : n \in 0..MaxCols},
        trs \in SeqsUpTo(Rows, MaxRows) }

InfoBoxes ==
    { <<>>, << <<>> >>, << << <<"LOGIN">> >> >>,
      << << <<"LOGIN">>, <<"HOME">> >> >>,
      << << <<"LOGOUT">>, <<"Kim">>, <<"HOME">> >> >> }

\* What the portal can answer to lib.py's login and main-page fetches.
LibLoginResponses ==
    { Response(st, u, h, c, "html", [BlankSoup EXCEPT !.infoBoxes = ib]) :
        st \in {200, 302}, u \in Urls,
        h \in WithHeader(WithHeader({NoHeaders}, "date", Dates),
                         "location", {<<"/Account/LogOn?">>}),
        c \in CookieJars, ib \in InfoBoxes }

\* What the portal can answer to library.py's login fetch.
LibraryLoginResponses ==
    { Response(st, u, h, c, "html", [BlankSoup EXCEPT !.alerts = al]) :
        st \in {200, 302}, u \in Urls,
        h \in WithHeader(WithHeader({NoHeaders}, "date", Dates),
                         "location", Locations),
        c \in CookieJars,
        al \in {<<>>, << <<"\n", " ", "wrong password", "\n">> >>} }

\* What the portal can answer to the fetch of a detail page.
DetailResponses ==
    { Response(200, u, NoHeaders, <<>>, "html",
               [BlankSoup EXCEPT !.bookData = bd, !.titleImages = im]) :
        u \in Urls,
        bd \in {<<>>, << <<"title">> >>, << <<"title">>, <<" ", "9788936433598", "\n">> >>},
        im \in TitleImages }

\* What a server can answer to the fetch of a photo URL.
PhotoResponses ==
    { Response(200, u, h, <<>>, b, BlankSoup) :
        u \in Urls, h \in WithHeader({NoHeaders}, "content-type", ContentTypes),
        b \in Bodies }

(* --------------------------- the pipeline ----------------------------- *)

Pending == [kind |-> "Pending"]
\* The value of `subject` while parse_subject has not been called.
NotCalled == [called |-> FALSE]
Called(res) == [called |-> TRUE, res |-> res]

Init ==
    /\ pc = "idle"
    /\ parser = "none"
    /\ response = Response(0, "", NoHeaders, <<>>, "", BlankSoup)
    /\ argCookies = <<>>
    /\ result = Pending
    /\ wrappedCalls = 0
    /\ blockedBy = 0
    /\ subject = NotCalled

\* The Transport answered parser p's fetch with r.  Every fetch + gate + parse
\* sequence is a unit of work of its own, with no state shared with another.
Fetched(p, r) ==
    /\ pc' = "fetched"
    /\ parser' = p
    /\ response' = r
    /\ argCookies' = <<>>
    /\ result' = Pending
    /\ wrappedCalls' = 0
    /\ blockedBy' = 0
    /\ subject' = NotCalled

\* A parse call of parser p that went as g says.
Parsed(p, g) ==
    /\ pc = "fetched"
    /\ parser = p
    /\ pc' = "parsed"
    /\ result' = g.out
    /\ wrappedCalls' = g.calls
    /\ blockedBy' = g.blockedBy
    /\ UNCHANGED <<parser, response>>

Lib_Login_fetch ==
    /\ pc = "idle"
    /\ \E r \in LibLoginResponses : Fetched("lib.Login", r)

Lib_Login_fetch_main_page ==
    /\ pc = "idle"
    /\ \E r \in LibLoginResponses : Fetched("lib.Login", r)

Lib_Library_fetch ==
    /\ pc = "idle"
    /\ \E r \in ListResponses : Fetched("lib.Library", r)

Lib_BookPhoto_fetch ==
    /\ pc = "idle"
    /\ \E r \in DetailResponses : Fetched("lib.BookPhoto", r)

Library_Login_fetch ==
    /\ pc = "idle"
    /\ \E r \in LibraryLoginResponses : Fetched("library.Login", r)

Library_CheckoutList_fetch ==
    /\ pc = "idle"
    /\ \E r \in ListResponses : Fetched("library.CheckoutList", r)

Library_BookDetail_fetch ==
    /\ pc = "idle"
    /\ \E r \in DetailResponses : Fetched("library.BookDetail", r)

Library_BookPhoto_fetch ==
    /\ pc = "idle"
    /\ \E r \in PhotoResponses : Fetched("library.BookPhoto", r)

Call_Lib_Login_parse ==
    \E cookies \in CookieJars :
        /\ Parsed("lib.Login", Ungated(Lib_Login_parse(response, cookies)))
        /\ argCookies' = cookies
        /\ UNCHANGED subject

\* `subject` records what the wrapped parse's call of parse_subject returned.
Call_Lib_Library_parse ==
    /\ Parsed("lib.Library", Lib_Library_parse(response))
    /\ subject' = IF Lib_Library_parse(response).calls = 1
                  THEN Called(Lib_Library_parse_subject(response))
                  ELSE NotCalled
    /\ UNCHANGED argCookies

Call_Lib_BookPhoto_parse ==
    Parsed("lib.BookPhoto", Ungated(Lib_BookPhoto_parse(response)))
        /\ UNCHANGED <<argCookies, subject>>

Call_Library_Login_parse ==
    Parsed("library.Login", Ungated(Library_Login_parse(response)))
        /\ UNCHANGED <<argCookies, subject>>

Call_Library_CheckoutList_parse ==
    /\ Parsed("library.CheckoutList", Library_CheckoutList_parse(response))
    /\ subject' = IF Library_CheckoutList_parse(response).calls = 1
                  THEN Called(Library_CheckoutList_parse_subject(response))
                  ELSE NotCalled
    /\ UNCHANGED argCookies

Call_Library_BookDetail_parse ==
    Parsed("library.BookDetail", Ungated(Library_BookDetail_parse(response)))
        /\ UNCHANGED <<argCookies, subject>>

Call_Library_BookPhoto_parse ==
    Parsed("library.BookPhoto", Ungated(Library_BookPhoto_parse(response)))
        /\ UNCHANGED <<argCookies, subject>>

Next ==
    \/ Lib_Login_fetch
    \/ Lib_Login_fetch_main_page
    \/ Lib_Library_fetch
    \/ Lib_BookPhoto_fetch
    \/ Library_Login_fetch
    \/ Library_CheckoutList_fetch
    \/ Library_BookDetail_fetch
    \/ Library_BookPhoto_fetch
    \/ Call_Lib_Login_parse
    \/ Call_Lib_Library_parse
    \/ Call_Lib_BookPhoto_parse
    \/ Call_Library_Login_parse
    \/ Call_Library_CheckoutList_parse
    \/ Call_Library_BookDetail_parse
    \/ Call_Library_BookPhoto_parse

Spec == Init /\ [][Next]_vars

(* ------------------------------ claims -------------------------------- *)

GatedParsers == {"lib.Library", "library.CheckoutList"}
LoginParsers == {"lib.Login", "library.Login"}

IsImageType(ct) ==
    /\ Len(ct) >= 5
    /\ ct[1] = "i" /\ ct[2] = "m" /\ ct[3] = "a" /\ ct[4] = "g" /\ ct[5] = "e"

\* C1: every parse that returns normally returns a ResourceData or an
\* ErrorData, never a value that is neither (None, a bare list).
C1_EveryParseReturnsOneVariant ==
    (pc = "parsed" /\ result.kind # "Raise") =>
        result.kind \in {"ResourceData", "ErrorData"}

\* C2: on a response with status 302 a gated parse returns the session-expired
\* ErrorData whose link is the response's URL, and the wrapped parse (and so
\* parse_subject) is not executed: nothing is raised, table or no table.
C2_RedirectShortCircuits ==
    (pc = "parsed" /\ parser \in GatedParsers /\ response.status = 302) =>
        /\ result = [kind |-> "ErrorData",
                     error |-> [title |-> SessionExpiredTitle],
                     link |-> response.url]
        /\ wrappedCalls = 0
        /\ subject = NotCalled

\* C2's case: a 302 response without any table markup went through a gated parse.
C2_Witness ==
    /\ pc = "parsed"
    /\ parser \in GatedParsers
    /\ response.status = 302
    /\ response.soup.theadRows = <<>>
    /\ response.soup.tbodyRows = <<>>
    /\ result.kind = "ErrorData"
    /\ result.link = response.url

ChecksOf(p) == IF p = "lib.Library" THEN Lib_Preconditions ELSE Library_Preconditions

WrappedOf(p, r) ==
    IF p = "lib.Library"
    THEN Lib_Library_parse_wrapped(r)
    ELSE Library_CheckoutList_parse_wrapped(r)

C4_BookPhotoClassifiesByContentType ==
    (/\ pc = "parsed"
     /\ parser = "library.BookPhoto"
     /\ "content-type" \in DOMAIN response.headers) =>
        IF IsImageType(response.headers["content-type"])
        THEN result = [kind |-> "ResourceData",
                       data |-> [raw_image |-> response.raw],
                       link |-> response.url]
        ELSE result = [kind |-> "ErrorData",
                       error |-> [title |-> ImageNotLoadedTitle],
                       link |-> response.url]

\* C5: when the second info-box item reads "HOME", lib.py's Login.parse
\* returns the login-failed ErrorData as a normal return, whatever else the
\* response holds (a date header or none, a location header or none).
C5_SentinelAlwaysYieldsErrorData ==
    (/\ pc = "parsed"
     /\ parser = "lib.Login"
     /\ response.soup.infoBoxes # <<>>
     /\ Len(response.soup.infoBoxes[1]) >= 2
     /\ response.soup.infoBoxes[1][2] = <<"HOME">>) =>
        /\ result.kind = "ErrorData"
        /\ result.error = [title |-> LoginFailedTitle]

\* The leftmost place of loc where ErrorCode= is followed by a digit.
IsErrorCodeAt(loc, i) ==
    /\ i < Len(loc)
    /\ loc[i] = "ErrorCode="
    /\ loc[i + 1] \in Digits
    /\ \A k \in 1..(i - 1) : ~(loc[k] = "ErrorCode=" /\ loc[k + 1] \in Digits)

\* loc[i+1..j] is the whole decimal number that follows the ErrorCode= at i.
IsNumberAfter(loc, i, j) ==
    /\ j > i
    /\ \A k \in (i + 1)..j : loc[k] \in Digits
    /\ j = Len(loc) \/ loc[j + 1] \notin Digits

\* C6: library.py's Login.parse, on a location header that contains
\* ErrorCode=<n>, returns ErrorData{code: n as a string} with the response's
\* URL as link (never ResourceData); without a location header and with a
\* warning alert it returns ErrorData{title: the alert's text}.
C6_LoginFailureSignals ==
    (pc = "parsed" /\ parser = "library.Login") =>
        /\ "location" \in DOMAIN response.headers =>
            LET loc == response.headers["location"] IN
            \A i \in 1..Len(loc), j \in 1..Len(loc) :
                (IsErrorCodeAt(loc, i) /\ IsNumberAfter(loc, i, j)) =>
                    result = [kind |-> "ErrorData",
                              error |-> [code |-> SubSeq(loc, i + 1, j)],
                              link |-> response.url]
        /\ ("location" \notin DOMAIN response.headers /\ response.soup.alerts # <<>>) =>
            result = [kind |-> "ErrorData",
                      error |-> [title |-> Strip(response.soup.alerts[1])],
                      link |-> response.url]

\* C6's case: the location header reads /Account/LogOn?ErrorCode=07.
C6_Witness ==
    /\ pc = "parsed"
    /\ parser = "library.Login"
    /\ "location" \in DOMAIN response.headers
    /\ response.headers["location"] = <<"/Account/LogOn?", "ErrorCode=", "0", "7">>
    /\ result.kind = "ErrorData"
    /\ result.error = [code |-> <<"0", "7">>]

\* C7: whenever a list parse yields a ResourceData, every row of body has as
\* many entries as head, whatever the numbers of header cells and row cells.
C7_HeadAndRowsAligned ==
    (pc = "parsed" /\ parser \in GatedParsers /\ result.kind = "ResourceData") =>
        \A i \in 1..Len(result.data.body) :
            Len(result.data.body[i]) = Len(result.data.head)

\* C8: with the header row present (and long enough for the column edits) and
\* zero rows in the table body, a list parse returns ResourceData with an
\* empty body and raises no ParsingFault.
C8_EmptyTableYieldsEmptyBody ==
    (/\ pc = "parsed"
     /\ parser \in GatedParsers
     /\ response.status # 302
     /\ response.soup.theadRows # <<>>
     /\ Len(response.soup.theadRows[1]) > DeletedIndex
     /\ response.soup.tbodyRows = <<>>) =>
        /\ result.kind = "ResourceData"
        /\ result.data.body = <<>>

LastLabel(p) == IF p = "lib.Library" THEN BookUrlLabel ELSE BookImageLabel

\* head is what the claim says parse_subject makes of the N header cells ths:
\* N-1 labels, the last one the renamed label, the others the cells' labels
\* without the one at index 4, in their order (library.py: index 0 is "ISBN").
SubjectAsClaimed(p, ths, head) ==
    LET N == Len(ths) IN
    /\ Len(head) = N - 1
    /\ head[N - 1] = LastLabel(p)
    /\ \A k \in 1..(N - 2) :
           IF k = 1 /\ p = "library.CheckoutList"
           THEN head[k] = <<"ISBN">>
           ELSE head[k] = <<ColNames[IF k <= 4 THEN k ELSE k + 1]>>

\* C9 as stated: for every header row of N raw columns parse_subject returns
\* a head of N-1 entries, the last the renamed label, the others in order.
C9_SubjectForEveryHeader ==
    (pc = "parsed" /\ subject.called /\ response.soup.theadRows # <<>>) =>
        /\ subject.res.ok
        /\ SubjectAsClaimed(parser, response.soup.theadRows[1], subject.res.val)

\* C9 as amended: that holds for every header row of N >= 5 raw columns; with
\* fewer than 5 columns there is no index 4 to delete and parse_subject
\* raises IndexError.
C9_SubjectForFiveOrMoreColumns ==
    (pc = "parsed" /\ subject.called /\ response.soup.theadRows # <<>>) =>
        IF Len(response.soup.theadRows[1]) >= 5
        THEN /\ subject.res.ok
             /\ SubjectAsClaimed(parser, response.soup.theadRows[1], subject.res.val)
        ELSE /\ ~subject.res.ok
             /\ subject.res.exc = [type |-> "IndexError"]

\* C9's case: parse_subject returned the head of a header row of 9 columns.
C9_Witness ==
    /\ pc = "parsed"
    /\ subject.called
    /\ response.soup.theadRows # <<>>
    /\ Len(response.soup.theadRows[1]) = 9
    /\ subject.res.ok
    /\ Len(subject.res.val) = 8

\* The Unix time of each date header the portal answers with.
ExpectedIat(d) ==
    CASE d.year = 1970 -> 0
      [] d.year = 2000 -> 951868799
      [] d.year = 2022 -> 1647316800

====
